---- MODULE Spec2Model ----
(***************************************************************************)
(* Model of the FlashLearn study session: the StudySession component       *)
(* (fetch, shuffle, flip / answer / advance, restart) together with the    *)
(* part of DeckManagement that mounts it and hands it onEndSession.        *)
(*                                                                         *)
(* One action is one run of the browser's event loop: an event handler or  *)
(* the continuation of an await, followed by the React render it causes    *)
(* and the effects of that render.  State setters of an unmounted          *)
(* component are no-ops.                                                   *)
(***************************************************************************)
EXTENDS Integers, Sequences, FiniteSets, Bags, TLC

\* ------------------------------------------------------------------ bounds
MaxCards == 2       \* cards stored in the deck
MaxInFlight == 2    \* requests in flight at one time when a sync is sent
MaxFetch == 2       \* requests in flight at one time when a fetch is sent
MaxLen == 3         \* length of the arrays handed to shuffleArray
MaxCount == 4       \* studyCount of the card an outcome is recorded for
MaxStudied == 40    \* studied cards the accuracy is computed for
MaxTokens == 2      \* reset tokens drawn by generatePasswordResetToken
MaxTime == 3        \* half hours that pass

CardIds == 1..MaxCards
Difficulties == {"easy", "medium", "hard"}
NoDifficulty == "null"
FetchKinds == {"ok", "denied", "neterr"}

VARIABLES
  store,               \* the deck's cards in the Card Store, newest first
  selectedDeck,        \* DeckManagement: a deck is selected
  dmCards,             \* DeckManagement: cards of the selected deck
  showDifficultyModal, \* DeckManagement
  showStudySession,    \* DeckManagement
  selectedDifficulty,  \* DeckManagement, the session's difficulty prop
  dmFetching,          \* DeckManagement.fetchCards calls awaiting their response
  cards,               \* StudySession
  currentCardIndex,    \* StudySession (0-based, as in the source)
  isFlipped,           \* StudySession
  sessionStats,        \* StudySession
  isLoading,           \* StudySession
  sessionComplete,     \* StudySession
  sessFetching,        \* StudySession.fetchCards calls of the mounted session awaiting their response
  orphanFetching,      \* the same, of sessions that were unmounted meanwhile
  answering,           \* bag of handleAnswer calls of the mounted session suspended on their sync,
                       \* each with the currentCardIndex and cards.length of its closure
  orphanAnswering,     \* number of such calls of sessions that were unmounted meanwhile
  crashed,             \* a render threw (no error boundary: the tree is gone)
  fetchCount,          \* history: card fetches issued by the mounted session
  initResult,          \* history: how the first fetch of the mounted session resolved
  passLog,             \* history: outcomes recorded since initialization / restart
  lastEvent,           \* history: the handler that ran last
  array,               \* shuffleArray: the caller's array
  draws,               \* shuffleArray: the values of Math.floor(Math.random() * (i + 1))
  shuffled,            \* shuffleArray: the returned array
  shufflePc,           \* shuffleArray: "idle", "called" or "returned"
  request,             \* handleAnswer: the sync request it issued
  answerPc,            \* handleAnswer: "idle", "called" or "sent"
  counts,              \* accuracy: the correct and the studied count
  accuracy,            \* accuracy: the percentage of the session summary
  cardAccuracy,        \* accuracy: the value of the virtual of the Card model
  accuracyPc,          \* accuracy: "idle", "called" or "returned"
  decks,               \* server: the decks, by id
  nextId,              \* server: the id of the next card stored
  requests,            \* server: bag of the requests suspended on a query
  response,            \* server: the response sent by the last step, if any
  users,               \* server: the accounts, by email
  now,                 \* server: Date.now(), in units of half an hour
  drawn                \* server: the number of reset tokens drawn so far

dmVars == <<selectedDeck, dmCards, showDifficultyModal, showStudySession,
            selectedDifficulty, dmFetching>>
sessVars == <<cards, currentCardIndex, isFlipped, sessionStats, isLoading,
              sessionComplete>>
flightVars == <<sessFetching, orphanFetching, answering, orphanAnswering>>
histVars == <<fetchCount, initResult, passLog>>
shuffleVars == <<array, draws, shuffled, shufflePc>>
syncVars == <<request, answerPc>>
accuracyVars == <<counts, accuracy, cardAccuracy, accuracyPc>>
\* the variables of the functions and of the server, idle during a session
apiVars == <<decks, nextId, requests, response>>
\* the accounts and the clock, which only the auth routes use
authVars == <<users, now, drawn>>
restVars == <<syncVars, accuracyVars, apiVars, authVars>>
vars == <<store, dmVars, sessVars, flightVars, histVars, crashed, lastEvent,
          shuffleVars, restVars>>

\* ------------------------------------------------------------- shuffleArray
DrawsFor(n) == {d \in [1..n -> 1..n] : \A i \in 1..n : d[i] <= i}

\* the exchange with its second assignment lost
Swap_lost(s, i, j) == [s EXCEPT ![i] = s[j]]

\* [shuffled[i], shuffled[j]] = [shuffled[j], shuffled[i]]
Swap(s, i, j) == [s EXCEPT ![i] = s[j], ![j] = s[i]]

RECURSIVE shuffleLoop(_, _, _)
shuffleLoop(st, i, d) ==
  IF i > 1
    THEN shuffleLoop([st EXCEPT !.shuffled = Swap(@, i, d[i])], i - 1, d)
    ELSE st

\* the caller's array and the returned copy after shuffleArray(a) with draws d
shuffleArray(a, d) == shuffleLoop([array |-> a, shuffled |-> a], Len(a), d)

\* --------------------------------------------------------------- Card Store
\* the deck the user selects in DeckManagement, and a deck that is not it
SelectedDeckId == 1
OtherDeckId == 2

\* the query without its deck
getCardsByDeck_anydeck(deckId, d) ==
  SelectSeq(store, LAMBDA c : (d \in Difficulties) => (c.difficulty = d))

\* getCardsByDeck for a requester who may read the deck: the deck's cards,
\* restricted to the difficulty when it is one of the three labels
getCardsByDeck(deckId, d) ==
  SelectSeq(store, LAMBDA c : /\ c.deck = deckId
                              /\ (d \in Difficulties) => (c.difficulty = d))

\* the user who created every deck, and another user
Owner == 1
Users == {1, 2}
DeckIds == {SelectedDeckId, OtherDeckId}

\* a card as createCard stores it for the owner of the deck
NewCard(id, deckId, difficulty) ==
  [id |-> id, deck |-> deckId, createdBy |-> Owner, difficulty |-> difficulty,
   studyCount |-> 0, correctCount |-> 0, lastStudied |-> 0]

\* a card with the fields getCardsByDeck filters on and the session reads
Card(id, deckId, difficulty) ==
  [id |-> id, deck |-> deckId, difficulty |-> difficulty]

\* the stores of at most MaxCards cards of the selected deck, card i being
\* its i-th newest (one easy card, the others hard, none medium), and an
\* older hard card of the other deck
Stores ==
  {[i \in 1..(n + 1) |->
      IF i = n + 1 THEN Card(0, OtherDeckId, "hard")
      ELSE Card(i, SelectedDeckId, IF i = 1 THEN "easy" ELSE "hard")] :
     n \in 0..MaxCards}

\* ------------------------------------------------------------- StudySession
InitialStats ==
  [totalCards |-> 0, studiedCards |-> 0, correctAnswers |-> 0,
   incorrectAnswers |-> 0]

\* DeckManagement renders <StudySession> instead of its own view
Mounted == showStudySession /\ selectedDeck

\* StudySession renders the card view (neither "Loading" nor the summary)
CardView == Mounted /\ ~isLoading /\ ~sessionComplete

\* the render of the card view reads currentCard.front of cards[currentCardIndex]
Render ==
  crashed' = (showStudySession' /\ selectedDeck' /\ ~isLoading'
              /\ ~sessionComplete' /\ currentCardIndex' >= Len(cards'))

\* the card view renders the answer buttons while the card is flipped
answerButtons == CardView /\ isFlipped

\* the click that turns the card over either way
flip_toggle(flipped) == ~flipped

\* the value of isFlipped after handleCardClick
flip(flipped) == IF ~flipped THEN TRUE ELSE flipped

\* the test without its length check
fetchSucceeded_nolen(kind, data) == kind = "ok"

\* the test of fetchCards on the parsed response
fetchSucceeded(kind, data) == kind = "ok" /\ Len(data) > 0

\* the updater counting every answer as incorrect as well
answerStats_both(prev, isCorrect) ==
  [prev EXCEPT !.studiedCards = @ + 1,
               !.correctAnswers = IF isCorrect THEN @ + 1 ELSE @,
               !.incorrectAnswers = @ + 1]

\* the updater handleAnswer passes to setSessionStats
answerStats(prev, isCorrect) ==
  [prev EXCEPT !.studiedCards = @ + 1,
               !.correctAnswers = IF isCorrect THEN @ + 1 ELSE @,
               !.incorrectAnswers = IF isCorrect THEN @ ELSE @ + 1]

\* the handler that sends its request again after the await
syncSettled_resend(pending, h) == pending

\* the await of handleAnswer is over, the fetch resolved or caught: the
\* handler leaves the pending ones and sends nothing more
syncSettled(pending, h) == pending (-) SetToBag({h})

\* the test of handleAnswer after its await, on the values its closure holds
hasNextCard(h) == h.currentCardIndex < h.length - 1

\* the updater without the spread of the previous statistics
restartStats_nospread(prev) == InitialStats

\* the updater handleRestartSession passes to setSessionStats
restartStats(prev) ==
  [prev EXCEPT !.studiedCards = 0, !.correctAnswers = 0,
               !.incorrectAnswers = 0]

\* the card fetches awaiting their response
Fetching == dmFetching + sessFetching + orphanFetching

\* the answer handlers suspended on their sync
Answering == BagCardinality(answering) + orphanAnswering

\* unmounting the session discards its state and leaves its pending
\* continuations, n fetches among them, without a component
Unmount(n) ==
  /\ orphanFetching' = orphanFetching + n
  /\ sessFetching' = 0
  /\ orphanAnswering' = orphanAnswering + BagCardinality(answering)
  /\ answering' = EmptyBag
  /\ cards' = <<>>
  /\ currentCardIndex' = 0
  /\ isFlipped' = FALSE
  /\ sessionStats' = InitialStats
  /\ isLoading' = TRUE
  /\ sessionComplete' = FALSE
  /\ fetchCount' = 0
  /\ passLog' = <<>>

\* DeckManagement.handleEndStudySession, the onEndSession of every session
handleEndStudySession ==
  /\ showStudySession' = FALSE
  /\ selectedDifficulty' = NoDifficulty
  /\ dmFetching' = IF selectedDeck THEN dmFetching + 1 ELSE dmFetching
  /\ UNCHANGED <<selectedDeck, dmCards, showDifficultyModal>>

\* ------------------------------------------------------- the sync request
\* no request issued yet
NoRequest == <<>>

\* the value of new Date().toISOString() in a request, 0 being null
Now == 1

\* the request carrying the increments instead of the new counts
syncRequest_delta(card, isCorrect) ==
  [cardId |-> card.id,
   studyCount |-> 1,
   correctCount |-> IF isCorrect THEN 1 ELSE 0,
   lastStudied |-> Now]

\* the PUT /api/cards/:cardId that handleAnswer issues for the card of its
\* closure
syncRequest(card, isCorrect) ==
  [cardId |-> card.id,
   studyCount |-> card.studyCount + 1,
   correctCount |-> IF isCorrect THEN card.correctCount + 1
                    ELSE card.correctCount,
   lastStudied |-> Now]

\* ------------------------------------------------------------- the accuracy
\* Numbers are IEEE 754 doubles.  A positive double is [m, e]: the 53 bits
\* of its significand, least significant first, and the exponent of the
\* least significant bit, its value being m * 2^e.
Precision == 53

Zeros(k) == [i \in 1..k |-> 0]

Reverse(b) == [i \in 1..Len(b) |-> b[Len(b) + 1 - i]]

RECURSIVE BitsToInt(_)
BitsToInt(b) == IF b = <<>> THEN 0 ELSE b[1] + 2 * BitsToInt(Tail(b))

RECURSIVE Increment(_)
Increment(b) ==
  IF b = <<>> THEN <<1>>
  ELSE IF b[1] = 0 THEN <<1>> \o Tail(b)
  ELSE <<0>> \o Increment(Tail(b))

RECURSIVE AddBits(_, _, _)
AddBits(a, b, carry) ==
  IF a = <<>> /\ b = <<>>
    THEN IF carry = 1 THEN <<1>> ELSE <<>>
    ELSE LET x == IF a = <<>> THEN 0 ELSE a[1]
             y == IF b = <<>> THEN 0 ELSE b[1]
             t == x + y + carry
         IN <<t % 2>> \o AddBits(IF a = <<>> THEN a ELSE Tail(a),
                                  IF b = <<>> THEN b ELSE Tail(b), t \div 2)

\* the exact product 100 * m = 4 m + 32 m + 64 m
Times100(m) ==
  AddBits(AddBits(Zeros(2) \o m, Zeros(5) \o m, 0), Zeros(6) \o m, 0)

\* the double nearest to p * 2^e, ties to even (p has its top bit set)
RoundToDouble(p, e) ==
  LET d == Len(p) - Precision
  IN IF d <= 0 THEN [m |-> p, e |-> e]
     ELSE LET kept == SubSeq(p, d + 1, Len(p))
              sticky == \E i \in 1..(d - 1) : p[i] = 1
              up == p[d] = 1 /\ (sticky \/ kept[1] = 1)
              m == IF up THEN Increment(kept) ELSE kept
          IN IF Len(m) > Precision
               THEN [m |-> Tail(m), e |-> e + d + 1]
               ELSE [m |-> m, e |-> e + d]

\* the k with s <= n * 2^k < 2 s, and n * 2^k
RECURSIVE Normalize(_, _, _)
Normalize(n, s, k) ==
  IF n >= s THEN [n |-> n, k |-> k] ELSE Normalize(2 * n, s, k + 1)

\* bits followed by the next n binary digits of r / s, most significant
\* first, and the remainder
RECURSIVE DivideBits(_, _, _, _)
DivideBits(r, s, n, bits) ==
  IF n = 0 THEN [bits |-> bits, rem |-> r]
  ELSE IF 2 * r >= s
    THEN DivideBits(2 * r - s, s, n - 1, Append(bits, 1))
    ELSE DivideBits(2 * r, s, n - 1, Append(bits, 0))

\* the double c / s for integers 0 < c <= s: the leading bit, Precision
\* further bits and a bit for the rest, rounded
Divide(c, s) ==
  LET nz == Normalize(c, s, 0)
      q == DivideBits(nz.n - s, s, Precision, <<>>)
      p == <<IF q.rem # 0 THEN 1 ELSE 0>> \o Reverse(q.bits) \o <<1>>
  IN RoundToDouble(p, 0 - nz.k - Precision - 1)

\* Math.round of a positive double less than 2^52: floor(x + 0.5)
MathRound(x) ==
  LET f == 0 - x.e
  IN BitsToInt(SubSeq(x.m, f + 1, Len(x.m)))
       + (IF f \in 1..Len(x.m) THEN x.m[f] ELSE 0)

\* Math.round((correct / studied) * 100) for 0 < correct <= studied
percentage(correct, studied) ==
  LET q == Divide(correct, studied)
  IN MathRound(RoundToDouble(Times100(q.m), q.e))

\* StudySession: the accuracy of the summary
sessionAccuracy(stats) ==
  IF stats.studiedCards > 0
    THEN IF stats.correctAnswers = 0 THEN 0
         ELSE percentage(stats.correctAnswers, stats.studiedCards)
    ELSE 0

\* Card: the virtual accuracy
virtualAccuracy(card) ==
  IF card.studyCount = 0 THEN 0
  ELSE IF card.correctCount = 0 THEN 0
  ELSE percentage(card.correctCount, card.studyCount)

\* --------------------------------------------------------------- the server
Tokens == {"none", "invalid", "expired", "nouser", "valid"}

\* a field absent from a request body
Undefined == -1
NoBody == [difficulty |-> "undefined", studyCount |-> Undefined,
           correctCount |-> Undefined, lastStudied |-> Undefined]

\* the body of the sync request of handleAnswer
syncBody(r) ==
  [NoBody EXCEPT !.studyCount = r.studyCount,
                 !.correctCount = r.correctCount,
                 !.lastStudied = r.lastStudied]

NoResponse == [op |-> "none", status |-> 0, token |-> "none", cardId |-> 0,
               body |-> NoBody]

Response(op, status, token, cardId, body) ==
  [op |-> op, status |-> status, token |-> token, cardId |-> cardId,
   body |-> body]

\* the middleware letting a token pass whose user is gone
authMiddleware_nouser(token) ==
  IF token \in {"none", "invalid", "expired"} THEN 401 ELSE 0

\* authMiddleware: the status it answers, 0 when it calls next()
authMiddleware(token) ==
  IF token = "none" THEN 401
  ELSE IF token = "nouser" THEN 401
  ELSE IF token = "invalid" THEN 401
  ELSE IF token = "expired" THEN 401
  ELSE 0

\* Card.countDocuments({deck: deckId})
countDocuments(st, deckId) ==
  Len(SelectSeq(st, LAMBDA c : c.deck = deckId))

\* decks whose cardCount was set by updateCardCount with no other request
\* running
CountedDecks(st) ==
  [d \in DeckIds |-> [exists |-> TRUE, cardCount |-> countDocuments(st, d)]]

\* the account with the admin role, Users having the role user
Admin == 3
Requesters == Users \cup {Admin}

\* req.user.role === 'admin', the role being the one of the stored account
isAdmin(userId) == userId = Admin

\* createdBy of the decks: the selected deck is the owner's, the other deck
\* the other user's
deckCreator(deckId) == IF deckId = SelectedDeckId THEN Owner ELSE 2

\* Card.findOne(cardQuery) finds a card: {_id: cardId} for an admin,
\* {_id: cardId, createdBy: userId} for a user
cardFound(cardId, userId) ==
  \E i \in 1..Len(store) :
    /\ store[i].id = cardId
    /\ isAdmin(userId) \/ store[i].createdBy = userId

\* the query of a deck that leaves createdBy out for every requester
deckFound_anyone(deckId, userId) == decks[deckId].exists

\* Deck.findOne(deckQuery) finds a deck: {_id: deckId} for an admin,
\* {_id: deckId, createdBy: userId} for a user
deckFound(deckId, userId) ==
  /\ decks[deckId].exists
  /\ isAdmin(userId) \/ deckCreator(deckId) = userId

\* Deck.find(deckQuery) of getUserDecks: {} for an admin, {createdBy: userId}
\* for a user
userDecks(userId) ==
  {d \in DeckIds : /\ decks[d].exists
                   /\ isAdmin(userId) \/ deckCreator(d) = userId}

\* the stored card with this id
cardById(st, cardId) ==
  st[CHOOSE i \in 1..Len(st) : st[i].id = cardId]

\* the assignments that also take the correctCount of the body
applyUpdate_correct(card, body) ==
  [card EXCEPT !.difficulty = IF body.difficulty # "undefined"
                                THEN body.difficulty ELSE @,
               !.correctCount = IF body.correctCount # Undefined
                                  THEN body.correctCount ELSE @]

\* the assignments of updateCard to the card it found: of front, back,
\* difficulty and tags, the difficulty is the one the model keeps
applyUpdate(card, body) ==
  [card EXCEPT !.difficulty = IF body.difficulty # "undefined"
                                THEN body.difficulty ELSE @]

NoRequestRunning == requests = EmptyBag

Suspended(op, pc, token, cardId, deckId, loaded, body) ==
  [op |-> op, pc |-> pc, token |-> token, cardId |-> cardId,
   deckId |-> deckId, loaded |-> loaded, counted |-> 0, body |-> body]

\* a request that passed authMiddleware and the validation of its route
\* reaches its handler: the handler's first query finds nothing (404), or
\* the handler is suspended on its next query
Arrive(op, token, found, r) ==
  /\ authMiddleware(token) = 0
  /\ IF ~found
       THEN /\ response' = Response("any", 404, token, 0, NoBody)
            /\ UNCHANGED requests
       ELSE /\ response' = NoResponse
            /\ requests' = requests (+) SetToBag({r})

\* a suspended request goes on to its next query
Proceed(r, next) ==
  /\ requests' = (requests (-) SetToBag({r})) (+) SetToBag({next})
  /\ response' = NoResponse

\* a suspended request is answered
Answer(r, status) ==
  /\ requests' = requests (-) SetToBag({r})
  /\ response' = Response(r.op, status, r.token,
                          IF r.op = "updateCard" THEN r.cardId ELSE 0, r.body)

\* no account is held and the clock stands
IdleAuth ==
  /\ users = <<>>
  /\ now = 0
  /\ drawn = 0

\* the server's documents and requests play no part: none is held
IdleApi ==
  /\ IdleAuth
  /\ decks = <<>>
  /\ nextId = 0
  /\ requests = EmptyBag
  /\ response = <<>>

\* ------------------------------------------------------------------ actions
Init ==
  /\ store \in Stores
  /\ selectedDeck = FALSE
  /\ dmCards = <<>>
  /\ showDifficultyModal = FALSE
  /\ showStudySession = FALSE
  /\ selectedDifficulty = NoDifficulty
  /\ dmFetching = 0
  /\ cards = <<>>
  /\ currentCardIndex = 0
  /\ isFlipped = FALSE
  /\ sessionStats = InitialStats
  /\ isLoading = TRUE
  /\ sessionComplete = FALSE
  /\ sessFetching = 0
  /\ orphanFetching = 0
  /\ answering = EmptyBag
  /\ orphanAnswering = 0
  /\ crashed = FALSE
  /\ fetchCount = 0
  /\ initResult = "none"
  /\ passLog = <<>>
  /\ lastEvent = "init"
  /\ array = <<>>
  /\ draws = <<>>
  /\ shuffled = <<>>
  /\ shufflePc = "idle"
  /\ request = NoRequest
  /\ answerPc = "idle"
  /\ counts = [correct |-> 0, studied |-> 0]
  /\ accuracy = 0
  /\ cardAccuracy = 0
  /\ accuracyPc = "idle"
  /\ IdleApi

\* DeckManagement.handleDeckSelect: select the deck and fetch its cards
handleDeckSelect ==
  /\ ~crashed /\ ~Mounted /\ ~showDifficultyModal
  /\ Fetching + Answering < MaxFetch
  /\ selectedDeck' = TRUE
  /\ dmFetching' = dmFetching + 1
  /\ lastEvent' = "handleDeckSelect"
  /\ UNCHANGED <<store, dmCards, showDifficultyModal, showStudySession,
                 selectedDifficulty, sessVars, flightVars, histVars, crashed,
                 shuffleVars, restVars>>

\* DeckManagement.fetchCards after its await.  setCards re-renders
\* DeckManagement, which makes a new handleEndStudySession; a mounted
\* StudySession then gets a new fetchCards (useCallback depends on
\* onEndSession) and its effect, which depends on fetchCards, calls it.
dmFetchCardsResume(kind) ==
  /\ ~crashed
  /\ dmFetching > 0
  /\ dmFetching' = dmFetching - 1
  /\ IF kind = "ok"
       THEN /\ dmCards' = getCardsByDeck(SelectedDeckId, NoDifficulty)
            /\ IF Mounted
                 THEN /\ sessFetching' = sessFetching + 1
                      /\ fetchCount' = fetchCount + 1
                 ELSE UNCHANGED <<sessFetching, fetchCount>>
       ELSE UNCHANGED <<dmCards, sessFetching, fetchCount>>
  /\ lastEvent' = "dmFetchCards"
  /\ UNCHANGED <<store, selectedDeck, showDifficultyModal, showStudySession,
                 selectedDifficulty, sessVars, orphanFetching, answering,
                 orphanAnswering, initResult, passLog, crashed,
                 shuffleVars, restVars>>

\* DeckManagement.handleStartStudy (the button is disabled without cards)
handleStartStudy ==
  /\ ~crashed /\ ~Mounted /\ selectedDeck /\ ~showDifficultyModal
  /\ Len(dmCards) # 0
  /\ showDifficultyModal' = TRUE
  /\ lastEvent' = "handleStartStudy"
  /\ UNCHANGED <<store, selectedDeck, dmCards, showStudySession,
                 selectedDifficulty, dmFetching, sessVars, flightVars,
                 histVars, crashed, shuffleVars,
                 restVars>>

\* DeckManagement.handleDifficultySelected: mounts a new StudySession, whose
\* effect calls fetchCards
handleDifficultySelected(d) ==
  /\ ~crashed /\ showDifficultyModal
  /\ Fetching + Answering < MaxFetch
  /\ selectedDifficulty' = d
  /\ showDifficultyModal' = FALSE
  /\ showStudySession' = TRUE
  /\ cards' = <<>>
  /\ currentCardIndex' = 0
  /\ isFlipped' = FALSE
  /\ sessionStats' = InitialStats
  /\ isLoading' = TRUE
  /\ sessionComplete' = FALSE
  /\ sessFetching' = 1
  /\ fetchCount' = 1
  /\ initResult' = "pending"
  /\ passLog' = <<>>
  /\ lastEvent' = "handleDifficultySelected"
  /\ UNCHANGED <<store, selectedDeck, dmCards, dmFetching, orphanFetching,
                 answering, orphanAnswering, crashed, shuffleVars,
                 restVars>>

\* StudySession.fetchCards after its awaits, in the mounted session
fetchCardsResume(kind) ==
  /\ ~crashed /\ Mounted
  /\ sessFetching > 0
  /\ LET data == getCardsByDeck(SelectedDeckId, selectedDifficulty)
     IN /\ IF fetchSucceeded(kind, data)
             THEN /\ \E d \in DrawsFor(Len(data)) :
                       cards' = shuffleArray(data, d).shuffled
                  /\ sessionStats' = [sessionStats EXCEPT !.totalCards = Len(cards')]
                  /\ sessFetching' = sessFetching - 1
                  /\ isLoading' = FALSE
                  /\ UNCHANGED <<dmVars, orphanFetching, answering,
                                 orphanAnswering, currentCardIndex, isFlipped,
                                 sessionComplete, fetchCount, passLog>>
             ELSE IF kind = "neterr"
               THEN /\ sessFetching' = sessFetching - 1
                    /\ isLoading' = FALSE
                    /\ UNCHANGED <<cards, sessionStats, dmVars, orphanFetching,
                                   answering, orphanAnswering, currentCardIndex,
                                   isFlipped, sessionComplete, fetchCount,
                                   passLog>>
               ELSE /\ handleEndStudySession
                    /\ Unmount(sessFetching - 1)
        /\ initResult' = IF initResult # "pending" THEN initResult
                         ELSE IF kind # "ok" THEN kind
                         ELSE IF Len(data) > 0 THEN "ok" ELSE "empty"
  /\ lastEvent' = "fetchCards"
  /\ UNCHANGED <<store, shuffleVars, restVars>>
  /\ Render

\* StudySession.fetchCards after its awaits, its session being unmounted:
\* the setters do nothing, the onEndSession of its closure still runs
orphanFetchCardsResume(ends) ==
  /\ ~crashed
  /\ orphanFetching > 0
  /\ IF ends
       THEN /\ handleEndStudySession
            /\ Unmount(sessFetching - 1)
       ELSE /\ orphanFetching' = orphanFetching - 1
            /\ UNCHANGED <<dmVars, sessFetching, answering, orphanAnswering,
                           sessVars, fetchCount, passLog>>
  /\ lastEvent' = "orphanFetchCards"
  /\ UNCHANGED <<store, initResult, crashed, shuffleVars,
                 restVars>>

\* StudySession.handleCardClick
handleCardClick ==
  /\ ~crashed /\ CardView
  /\ isFlipped' = flip(isFlipped)
  /\ lastEvent' = "handleCardClick"
  /\ UNCHANGED <<store, dmVars, cards, currentCardIndex, sessionStats,
                 isLoading, sessionComplete, flightVars, histVars, crashed,
                 shuffleVars,
                 restVars>>

\* StudySession.handleAnswer up to its await, on the state of the session:
\* the buttons exist while flipped
recordOutcome(isCorrect) ==
  /\ ~crashed /\ answerButtons
  /\ Fetching + Answering < MaxInFlight
  /\ sessionStats' = answerStats(sessionStats, isCorrect)
  /\ answering' = answering (+) SetToBag({[currentCardIndex |-> currentCardIndex,
                                          length |-> Len(cards)]})
  /\ passLog' = Append(passLog, cards[currentCardIndex + 1])
  /\ lastEvent' = "handleAnswer"
  /\ UNCHANGED <<store, dmVars, cards, currentCardIndex, isFlipped, isLoading,
                 sessionComplete, sessFetching, orphanFetching,
                 orphanAnswering, fetchCount, initResult, crashed,
                 shuffleVars>>

\* StudySession.handleAnswer up to its await, the content of its request
\* left out
handleAnswer(isCorrect) ==
  /\ recordOutcome(isCorrect)
  /\ UNCHANGED restVars

\* StudySession.handleAnswer after its await, in the mounted session: it goes
\* on the same way whether the sync request resolved or was rejected (the
\* catch logs the error and falls through)
handleAnswerResume(h) ==
  /\ ~crashed /\ Mounted
  /\ BagIn(h, answering)
  /\ answering' = syncSettled(answering, h)
  /\ IF hasNextCard(h)
       THEN /\ currentCardIndex' = currentCardIndex + 1
            /\ isFlipped' = FALSE
            /\ UNCHANGED sessionComplete
       ELSE /\ sessionComplete' = TRUE
            /\ UNCHANGED <<currentCardIndex, isFlipped>>
  /\ lastEvent' = "handleAnswerResume"
  /\ UNCHANGED <<store, dmVars, cards, sessionStats, isLoading, sessFetching,
                 orphanFetching, orphanAnswering, histVars, shuffleVars,
                 restVars>>
  /\ Render

\* the continuation whose setIsFlipped(false) reaches the session shown now
orphanAnswerResume_live ==
  /\ ~crashed
  /\ orphanAnswering > 0
  /\ orphanAnswering' = orphanAnswering - 1
  /\ isFlipped' = FALSE
  /\ lastEvent' = "handleAnswerResume"
  /\ UNCHANGED <<store, dmVars, cards, currentCardIndex, sessionStats,
                 isLoading, sessionComplete, sessFetching, orphanFetching,
                 answering, histVars, crashed, shuffleVars, restVars>>

\* StudySession.handleAnswer after its await, its session being unmounted:
\* the setters of the unmounted component do nothing
orphanAnswerResume ==
  /\ ~crashed
  /\ orphanAnswering > 0
  /\ orphanAnswering' = orphanAnswering - 1
  /\ lastEvent' = "handleAnswerResume"
  /\ UNCHANGED <<store, dmVars, sessVars, sessFetching, orphanFetching,
                 answering, histVars, crashed, shuffleVars,
                 restVars>>

\* StudySession.handleRestartSession, the "Study Again" button of the summary
handleRestartSession ==
  /\ ~crashed /\ Mounted /\ ~isLoading /\ sessionComplete
  /\ currentCardIndex' = 0
  /\ isFlipped' = FALSE
  /\ sessionComplete' = FALSE
  /\ sessionStats' = restartStats(sessionStats)
  /\ passLog' = <<>>
  /\ lastEvent' = "handleRestartSession"
  /\ UNCHANGED <<store, dmVars, cards, isLoading, flightVars, fetchCount,
                 initResult, shuffleVars,
                 restVars>>
  /\ Render

\* the "End Session" buttons of the card view and of the summary
endSession ==
  /\ ~crashed /\ Mounted /\ ~isLoading
  /\ Fetching + Answering < MaxFetch
  /\ handleEndStudySession
  /\ Unmount(sessFetching)
  /\ lastEvent' = "onEndSession"
  /\ UNCHANGED <<store, initResult, crashed, shuffleVars,
                 restVars>>

\* the close button of the difficulty modal
cancelDifficulty ==
  /\ ~crashed /\ showDifficultyModal
  /\ showDifficultyModal' = FALSE
  /\ lastEvent' = "cancelDifficulty"
  /\ UNCHANGED <<store, selectedDeck, dmCards, showStudySession,
                 selectedDifficulty, dmFetching, sessVars, flightVars,
                 histVars, crashed, shuffleVars,
                 restVars>>

Next ==
  \/ handleDeckSelect
  \/ \E kind \in FetchKinds : dmFetchCardsResume(kind)
  \/ handleStartStudy
  \/ \E d \in Difficulties \cup {NoDifficulty} : handleDifficultySelected(d)
  \/ cancelDifficulty
  \/ \E kind \in FetchKinds : fetchCardsResume(kind)
  \/ \E ends \in BOOLEAN : orphanFetchCardsResume(ends)
  \/ handleCardClick
  \/ \E isCorrect \in BOOLEAN : handleAnswer(isCorrect)
  \/ \E h \in BagToSet(answering) : handleAnswerResume(h)
  \/ orphanAnswerResume
  \/ handleRestartSession
  \/ endSession

Spec == Init /\ [][Next]_vars

\* ---------------------------------------------------- shuffleArray on its own
Arrays == UNION {[1..n -> CardIds] : n \in 0..MaxLen}

ShuffleInit ==
  /\ store = <<>>
  /\ selectedDeck = FALSE
  /\ dmCards = <<>>
  /\ showDifficultyModal = FALSE
  /\ showStudySession = FALSE
  /\ selectedDifficulty = NoDifficulty
  /\ dmFetching = 0
  /\ cards = <<>>
  /\ currentCardIndex = 0
  /\ isFlipped = FALSE
  /\ sessionStats = InitialStats
  /\ isLoading = TRUE
  /\ sessionComplete = FALSE
  /\ sessFetching = 0
  /\ orphanFetching = 0
  /\ answering = EmptyBag
  /\ orphanAnswering = 0
  /\ crashed = FALSE
  /\ fetchCount = 0
  /\ initResult = "none"
  /\ passLog = <<>>
  /\ lastEvent = "init"
  /\ array \in Arrays
  /\ draws \in DrawsFor(Len(array))
  /\ shuffled = <<>>
  /\ shufflePc = "called"
  /\ request = NoRequest
  /\ answerPc = "idle"
  /\ counts = [correct |-> 0, studied |-> 0]
  /\ accuracy = 0
  /\ cardAccuracy = 0
  /\ accuracyPc = "idle"
  /\ IdleApi

\* one call of shuffleArray(array)
shuffleCall ==
  /\ shufflePc = "called"
  /\ LET r == shuffleArray(array, draws)
     IN /\ array' = r.array
        /\ shuffled' = r.shuffled
  /\ shufflePc' = "returned"
  /\ UNCHANGED <<draws, store, dmVars, sessVars, flightVars, histVars,
                 crashed, lastEvent, restVars>>

ShuffleNext == shuffleCall

ShuffleSpec == ShuffleInit /\ [][ShuffleNext]_vars

\* ------------------------------------------- the sync request on its own
IdleSession ==
  /\ selectedDeck = FALSE
  /\ dmCards = <<>>
  /\ showDifficultyModal = FALSE
  /\ showStudySession = FALSE
  /\ selectedDifficulty = NoDifficulty
  /\ dmFetching = 0
  /\ cards = <<>>
  /\ currentCardIndex = 0
  /\ isFlipped = FALSE
  /\ sessionStats = InitialStats
  /\ isLoading = TRUE
  /\ sessionComplete = FALSE
  /\ sessFetching = 0
  /\ orphanFetching = 0
  /\ answering = EmptyBag
  /\ orphanAnswering = 0
  /\ crashed = FALSE
  /\ fetchCount = 0
  /\ initResult = "none"
  /\ passLog = <<>>
  /\ lastEvent = "init"

IdleShuffle ==
  /\ array = <<>>
  /\ draws = <<>>
  /\ shuffled = <<>>
  /\ shufflePc = "idle"

IdleSync ==
  /\ request = NoRequest
  /\ answerPc = "idle"

IdleAccuracy ==
  /\ counts = [correct |-> 0, studied |-> 0]
  /\ accuracy = 0
  /\ cardAccuracy = 0
  /\ accuracyPc = "idle"

\* card id with the counts of earlier answers
StudiedCards(id) ==
  {[NewCard(id, SelectedDeckId, "easy") EXCEPT !.studyCount = p[1],
                                               !.correctCount = p[2]] :
     p \in {q \in (0..MaxCount) \X (0..MaxCount) : q[2] <= q[1]}}

\* a running session of one or two cards showing a flipped card
AnswerInit ==
  /\ store = <<>>
  /\ selectedDeck = TRUE
  /\ dmCards = <<>>
  /\ showDifficultyModal = FALSE
  /\ showStudySession = TRUE
  /\ selectedDifficulty = NoDifficulty
  /\ dmFetching = 0
  /\ \/ \E c \in StudiedCards(1) : cards = <<c>>
     \/ \E c \in StudiedCards(1), d \in StudiedCards(2) : cards = <<c, d>>
  /\ currentCardIndex \in 0..(Len(cards) - 1)
  /\ isFlipped = TRUE
  /\ sessionStats = [InitialStats EXCEPT !.totalCards = Len(cards)]
  /\ isLoading = FALSE
  /\ sessionComplete = FALSE
  /\ sessFetching = 0
  /\ orphanFetching = 0
  /\ answering = EmptyBag
  /\ orphanAnswering = 0
  /\ crashed = FALSE
  /\ fetchCount = 1
  /\ initResult = "ok"
  /\ passLog = <<>>
  /\ lastEvent = "handleCardClick"
  /\ IdleShuffle
  /\ request = NoRequest
  /\ answerPc = "called"
  /\ IdleAccuracy
  /\ IdleApi

\* handleAnswer(isCorrect) up to its fetch: the request it issues
answerCall(isCorrect) ==
  /\ answerPc = "called"
  /\ answerButtons
  /\ request' = syncRequest(cards[currentCardIndex + 1], isCorrect)
  /\ answerPc' = "sent"
  /\ lastEvent' = IF isCorrect THEN "answerCorrect" ELSE "answerIncorrect"
  /\ UNCHANGED <<store, dmVars, sessVars, flightVars, histVars, crashed,
                 shuffleVars, accuracyVars, apiVars, authVars>>

AnswerNext == \E isCorrect \in BOOLEAN : answerCall(isCorrect)

AnswerSpec == AnswerInit /\ [][AnswerNext]_vars

\* ---------------------------------------------- the passes of one session
\* a running session of one or two cards at its first card, the first card
\* with the counts of earlier sessions
PassInit ==
  /\ store = <<>>
  /\ selectedDeck = TRUE
  /\ dmCards = <<>>
  /\ showDifficultyModal = FALSE
  /\ showStudySession = TRUE
  /\ selectedDifficulty = NoDifficulty
  /\ dmFetching = 0
  /\ \E c \in StudiedCards(1) :
       cards \in {<<c>>, <<c, NewCard(2, SelectedDeckId, "hard")>>}
  /\ currentCardIndex = 0
  /\ isFlipped = FALSE
  /\ sessionStats = [InitialStats EXCEPT !.totalCards = Len(cards)]
  /\ isLoading = FALSE
  /\ sessionComplete = FALSE
  /\ sessFetching = 0
  /\ orphanFetching = 0
  /\ answering = EmptyBag
  /\ orphanAnswering = 0
  /\ crashed = FALSE
  /\ fetchCount = 1
  /\ initResult = "ok"
  /\ passLog = <<>>
  /\ lastEvent = "fetchCards"
  /\ IdleShuffle
  /\ IdleSync
  /\ IdleAccuracy
  /\ IdleApi

\* StudySession.handleAnswer up to its await, with the request it sends
handleAnswerRequest(isCorrect) ==
  /\ recordOutcome(isCorrect)
  /\ request' = syncRequest(cards[currentCardIndex + 1], isCorrect)
  /\ answerPc' = "sent"
  /\ UNCHANGED <<accuracyVars, apiVars, authVars>>

PassNext ==
  \/ handleCardClick
  \/ \E isCorrect \in BOOLEAN : handleAnswerRequest(isCorrect)
  \/ \E h \in BagToSet(answering) : handleAnswerResume(h)
  \/ handleRestartSession

\* the answers and the restarts of a session that has its cards
PassSpec == PassInit /\ [][PassNext]_vars

\* ----------------------------------------------- the accuracy on its own
AccuracyInit ==
  /\ store = <<>>
  /\ IdleSession
  /\ IdleShuffle
  /\ IdleSync
  /\ IdleApi
  /\ \E n \in 0..MaxStudied, k \in 0..MaxStudied :
       /\ k <= n
       /\ counts = [correct |-> k, studied |-> n]
  /\ accuracy = 0
  /\ cardAccuracy = 0
  /\ accuracyPc = "called"

\* the summary of a session with these counts and the virtual of a card
\* with these counts
accuracyCall ==
  /\ accuracyPc = "called"
  /\ accuracy' = sessionAccuracy([InitialStats EXCEPT
                                    !.studiedCards = counts.studied,
                                    !.correctAnswers = counts.correct])
  /\ cardAccuracy' = virtualAccuracy([NewCard(1, SelectedDeckId, "easy") EXCEPT
                                        !.studyCount = counts.studied,
                                        !.correctCount = counts.correct])
  /\ accuracyPc' = "returned"
  /\ UNCHANGED <<counts, store, dmVars, sessVars, flightVars, histVars,
                 crashed, lastEvent, shuffleVars, syncVars, apiVars,
                 authVars>>

AccuracyNext == accuracyCall

AccuracySpec == AccuracyInit /\ [][AccuracyNext]_vars

\* ------------------------------------------------------ the server on its own
\* the variables of the browser
clientVars == <<dmVars, sessVars, flightVars, histVars, crashed, lastEvent,
                shuffleVars, syncVars, accuracyVars>>

\* the stored cards of the selected deck, no other deck having cards
ServerStores ==
  {[i \in 1..n |->
      NewCard(i, SelectedDeckId, IF i = 1 THEN "easy" ELSE "hard")] :
     n \in 0..MaxCards}

StoreInit ==
  /\ store \in ServerStores
  /\ IdleSession
  /\ IdleShuffle
  /\ IdleSync
  /\ IdleAccuracy
  /\ IdleAuth
  /\ decks = CountedDecks(store)
  /\ nextId = Len(store) + 1
  /\ requests = EmptyBag
  /\ response = NoResponse

Running == BagCardinality(requests)

\* the createCard requests that have not stored their card
Creating ==
  LET saving == {r \in BagToSet(requests) :
                   r.op = "createCard" /\ r.pc = "save"}
  IN IF saving = {} THEN 0
     ELSE BagCardinality([r \in saving |-> requests[r]])

\* the bodies of the sync requests for a card, built from the stored card
SyncBodies(cardId) ==
  LET card == IF \E i \in 1..Len(store) : store[i].id = cardId
                THEN cardById(store, cardId)
                ELSE NewCard(cardId, SelectedDeckId, "easy")
  IN {syncBody(syncRequest(card, isCorrect)) : isCorrect \in BOOLEAN}

\* router.use(authMiddleware): a request of any route whose token does not
\* pass is answered by the middleware
authReject(token) ==
  /\ authMiddleware(token) # 0
  /\ response' = Response("any", authMiddleware(token), token, 0, NoBody)
  /\ UNCHANGED <<store, decks, nextId, requests, clientVars, authVars>>

\* validateCard and validateCardUpdate answer the requests they refuse
validationReject(token) ==
  /\ authMiddleware(token) = 0
  /\ response' = Response("any", 400, token, 0, NoBody)
  /\ UNCHANGED <<store, decks, nextId, requests, clientVars, authVars>>

\* POST /api/cards: createCard up to Deck.findOne
createCard(token, userId, deckId) ==
  /\ Running < MaxInFlight
  /\ nextId + Creating <= MaxCards
  /\ Arrive("createCard", token, deckFound(deckId, userId),
            Suspended("createCard", "save", token, 0, deckId,
                      decks[deckId].cardCount, NoBody))
  /\ UNCHANGED <<store, decks, nextId, clientVars, authVars>>

\* createCard: card.save()
cardSave(r) ==
  /\ BagIn(r, requests)
  /\ r.op = "createCard" /\ r.pc = "save"
  /\ store' = <<NewCard(nextId, r.deckId, "medium")>> \o store
  /\ nextId' = nextId + 1
  /\ Proceed(r, [r EXCEPT !.pc = "count"])
  /\ UNCHANGED <<decks, clientVars, authVars>>

\* deck.updateCardCount(): Card.countDocuments
updateCardCount(r) ==
  /\ BagIn(r, requests)
  /\ r.pc = "count"
  /\ Proceed(r, [r EXCEPT !.pc = "saveDeck",
                          !.counted = countDocuments(store, r.deckId)])
  /\ UNCHANGED <<store, decks, nextId, clientVars, authVars>>

\* deck.updateCardCount(): this.save() of the deck loaded earlier, which
\* writes cardCount when it differs from the loaded value and fails when
\* the deck is gone; then the response of createCard or deleteCard
deckSave(r) ==
  /\ BagIn(r, requests)
  /\ r.pc = "saveDeck"
  /\ IF decks[r.deckId].exists
       THEN /\ decks' = IF r.counted # r.loaded
                          THEN [decks EXCEPT ![r.deckId].cardCount = r.counted]
                          ELSE decks
            /\ Answer(r, IF r.op = "createCard" THEN 201 ELSE 200)
       ELSE /\ Answer(r, 500)
            /\ UNCHANGED decks
  /\ UNCHANGED <<store, nextId, clientVars, authVars>>

\* DELETE /api/cards/:cardId: deleteCard up to Card.findOne
deleteCard(token, userId, cardId) ==
  /\ Running < MaxInFlight
  /\ Arrive("deleteCard", token, cardFound(cardId, userId),
            Suspended("deleteCard", "delete", token, cardId,
                      IF cardFound(cardId, userId)
                        THEN cardById(store, cardId).deck ELSE SelectedDeckId,
                      0, NoBody))
  /\ UNCHANGED <<store, decks, nextId, clientVars, authVars>>

\* deleteCard: Card.findByIdAndDelete
cardDelete(r) ==
  /\ BagIn(r, requests)
  /\ r.pc = "delete"
  /\ store' = SelectSeq(store, LAMBDA c : c.id # r.cardId)
  /\ Proceed(r, [r EXCEPT !.pc = "findDeck"])
  /\ UNCHANGED <<decks, nextId, clientVars, authVars>>

\* deleteCard: Deck.findById, and the response when there is no deck
findDeck(r) ==
  /\ BagIn(r, requests)
  /\ r.pc = "findDeck"
  /\ IF decks[r.deckId].exists
       THEN Proceed(r, [r EXCEPT !.pc = "count",
                                !.loaded = decks[r.deckId].cardCount])
       ELSE Answer(r, 200)
  /\ UNCHANGED <<store, decks, nextId, clientVars, authVars>>

\* DELETE /api/cards/decks/:deckId: deleteDeck up to Deck.findOne
deleteDeck(token, userId, deckId) ==
  /\ Running < MaxInFlight
  /\ Arrive("deleteDeck", token, deckFound(deckId, userId),
            Suspended("deleteDeck", "deleteMany", token, 0, deckId, 0, NoBody))
  /\ UNCHANGED <<store, decks, nextId, clientVars, authVars>>

\* deleteDeck: Card.deleteMany({deck: deckId})
deleteMany(r) ==
  /\ BagIn(r, requests)
  /\ r.pc = "deleteMany"
  /\ store' = SelectSeq(store, LAMBDA c : c.deck # r.deckId)
  /\ Proceed(r, [r EXCEPT !.pc = "deleteDeck"])
  /\ UNCHANGED <<decks, nextId, clientVars, authVars>>

\* deleteDeck: Deck.findByIdAndDelete and the response
deckDelete(r) ==
  /\ BagIn(r, requests)
  /\ r.pc = "deleteDeck"
  /\ decks' = [decks EXCEPT ![r.deckId] = [exists |-> FALSE, cardCount |-> 0]]
  /\ Answer(r, 200)
  /\ UNCHANGED <<store, nextId, clientVars, authVars>>

\* PUT /api/cards/:cardId: updateCard up to Card.findOne
updateCard(token, userId, cardId, body) ==
  /\ Running < MaxInFlight
  /\ Arrive("updateCard", token, cardFound(cardId, userId),
            Suspended("updateCard", "update", token, cardId, SelectedDeckId, 0,
                      body))
  /\ UNCHANGED <<store, decks, nextId, clientVars, authVars>>

\* updateCard: the assignments to the card it found, card.save() (which
\* fails when the card is gone) and the response
updateSave(r) ==
  /\ BagIn(r, requests)
  /\ r.pc = "update"
  /\ IF \E i \in 1..Len(store) : store[i].id = r.cardId
       THEN /\ store' = [i \in 1..Len(store) |->
                           IF store[i].id = r.cardId
                             THEN applyUpdate(store[i], r.body) ELSE store[i]]
            /\ Answer(r, 200)
       ELSE /\ Answer(r, 500)
            /\ UNCHANGED store
  /\ UNCHANGED <<decks, nextId, clientVars, authVars>>

StoreNext ==
  \/ \E token \in Tokens : authReject(token)
  \/ \E token \in Tokens : validationReject(token)
  \/ \E token \in Tokens, userId \in Users :
       createCard(token, userId, SelectedDeckId)
  \/ \E r \in BagToSet(requests) : cardSave(r)
  \/ \E r \in BagToSet(requests) : updateCardCount(r)
  \/ \E r \in BagToSet(requests) : deckSave(r)
  \/ \E token \in Tokens, userId \in Users, cardId \in CardIds :
       deleteCard(token, userId, cardId)
  \/ \E r \in BagToSet(requests) : cardDelete(r)
  \/ \E r \in BagToSet(requests) : findDeck(r)
  \/ \E token \in Tokens, userId \in Users :
       deleteDeck(token, userId, SelectedDeckId)
  \/ \E r \in BagToSet(requests) : deleteMany(r)
  \/ \E r \in BagToSet(requests) : deckDelete(r)

\* the requests that create and delete
StoreSpec == StoreInit /\ [][StoreNext]_vars

SyncNext ==
  \/ \E token \in Tokens : authReject(token)
  \/ \E token \in Tokens : validationReject(token)
  \/ \E token \in Tokens, userId \in Users :
       createCard(token, userId, SelectedDeckId)
  \/ \E r \in BagToSet(requests) : cardSave(r)
  \/ \E r \in BagToSet(requests) : updateCardCount(r)
  \/ \E r \in BagToSet(requests) : deckSave(r)
  \/ \E token \in Tokens, userId \in Users, cardId \in CardIds :
       \E body \in SyncBodies(cardId) : updateCard(token, userId, cardId, body)
  \/ \E r \in BagToSet(requests) : updateSave(r)

\* the requests that create and update
SyncSpec == StoreInit /\ [][SyncNext]_vars

\* ------------------------------------------------ the queries on their own
\* the stored cards of both decks, each created by the creator of its deck
\* or by the admin
AccessStores ==
  LET cardsOf(d) == {[NewCard(0, d, "easy") EXCEPT !.createdBy = u] :
                       u \in {deckCreator(d), Admin}}
  IN UNION {[1..n -> UNION {cardsOf(d) : d \in DeckIds}] : n \in 0..MaxCards}

\* card i of the store has id i
Numbered(st) == [i \in 1..Len(st) |-> [st[i] EXCEPT !.id = i]]

\* the response of a request that ran alone, with the requester, the deck or
\* card of the route and the documents of data
Served(op, status, userId, id, data) ==
  [op |-> op, status |-> status, userId |-> userId, id |-> id, data |-> data]

AccessInit ==
  /\ store \in {Numbered(st) : st \in AccessStores}
  /\ IdleSession
  /\ IdleShuffle
  /\ IdleSync
  /\ IdleAccuracy
  /\ IdleAuth
  /\ decks = CountedDecks(store)
  /\ nextId = Len(store) + 1
  /\ requests = EmptyBag
  /\ response = Served("none", 0, 0, 0, <<>>)

\* createCard from Deck.findOne to its response, no other request running
createCardAlone(userId, deckId) ==
  /\ nextId <= MaxCards
  /\ IF ~deckFound(deckId, userId)
       THEN /\ response' = Served("createCard", 404, userId, deckId, <<>>)
            /\ UNCHANGED <<store, decks, nextId>>
       ELSE /\ store' = <<[NewCard(nextId, deckId, "medium")
                             EXCEPT !.createdBy = userId]>> \o store
            /\ nextId' = nextId + 1
            /\ decks' = [decks EXCEPT ![deckId].cardCount =
                                        countDocuments(store', deckId)]
            /\ response' = Served("createCard", 201, userId, deckId, <<>>)
  /\ UNCHANGED <<requests, clientVars, authVars>>

\* getCardsByDeck from Deck.findOne to its response
getCardsByDeckAlone(userId, deckId, difficulty) ==
  /\ response' = IF ~deckFound(deckId, userId)
                   THEN Served("getCardsByDeck", 404, userId, deckId, <<>>)
                   ELSE Served("getCardsByDeck", 200, userId, deckId,
                               getCardsByDeck(deckId, difficulty))
  /\ UNCHANGED <<store, decks, nextId, requests, clientVars, authVars>>

\* updateCard from Card.findOne to its response
updateCardAlone(userId, cardId, body) ==
  /\ IF ~cardFound(cardId, userId)
       THEN /\ response' = Served("updateCard", 404, userId, cardId, <<>>)
            /\ UNCHANGED store
       ELSE /\ store' = [i \in 1..Len(store) |->
                           IF store[i].id = cardId
                             THEN applyUpdate(store[i], body) ELSE store[i]]
            /\ response' = Served("updateCard", 200, userId, cardId, <<>>)
  /\ UNCHANGED <<decks, nextId, requests, clientVars, authVars>>

\* deleteCard from Card.findOne to its response
deleteCardAlone(userId, cardId) ==
  /\ IF ~cardFound(cardId, userId)
       THEN /\ response' = Served("deleteCard", 404, userId, cardId, <<>>)
            /\ UNCHANGED <<store, decks>>
       ELSE LET deckId == cardById(store, cardId).deck
            IN /\ store' = SelectSeq(store, LAMBDA c : c.id # cardId)
               /\ decks' = IF decks[deckId].exists
                              THEN [decks EXCEPT ![deckId].cardCount =
                                      countDocuments(store', deckId)]
                              ELSE decks
               /\ response' = Served("deleteCard", 200, userId, cardId, <<>>)
  /\ UNCHANGED <<nextId, requests, clientVars, authVars>>

\* getUserDecks
getUserDecksAlone(userId) ==
  /\ response' = Served("getUserDecks", 200, userId, 0, userDecks(userId))
  /\ UNCHANGED <<store, decks, nextId, requests, clientVars, authVars>>

\* deleteDeck from Deck.findOne to its response
deleteDeckAlone(userId, deckId) ==
  /\ IF ~deckFound(deckId, userId)
       THEN /\ response' = Served("deleteDeck", 404, userId, deckId, <<>>)
            /\ UNCHANGED <<store, decks>>
       ELSE /\ store' = SelectSeq(store, LAMBDA c : c.deck # deckId)
            /\ decks' = [decks EXCEPT
                           ![deckId] = [exists |-> FALSE, cardCount |-> 0]]
            /\ response' = Served("deleteDeck", 200, userId, deckId, <<>>)
  /\ UNCHANGED <<nextId, requests, clientVars, authVars>>

\* the body that sets the difficulty
hardBody == [NoBody EXCEPT !.difficulty = "hard"]

AccessNext ==
  \/ \E userId \in Requesters, deckId \in DeckIds :
       createCardAlone(userId, deckId)
  \/ \E userId \in Requesters, deckId \in DeckIds :
       \E difficulty \in {NoDifficulty, "easy"} :
         getCardsByDeckAlone(userId, deckId, difficulty)
  \/ \E userId \in Requesters, cardId \in CardIds :
       updateCardAlone(userId, cardId, hardBody)
  \/ \E userId \in Requesters, cardId \in CardIds :
       deleteCardAlone(userId, cardId)
  \/ \E userId \in Requesters : getUserDecksAlone(userId)
  \/ \E userId \in Requesters, deckId \in DeckIds :
       deleteDeckAlone(userId, deckId)

\* the requests of the three accounts, one at a time
AccessSpec == AccessInit /\ [][AccessNext]_vars

\* ------------------------------------------------------- the auth routes
\* the emails of the requests; an account's username goes with its email
Emails == {"a", "b"}

\* a role absent from the request body
NoRole == "undefined"
RoleInputs == {NoRole, "user", "admin", "root"}

\* the passwords of the requests
NewPasswords == {"new1", "new2"}
Passwords == {"old", "pw"} \cup NewPasswords

\* passwordResetToken and passwordResetExpires of an account without a token
NoToken == 0
ResetTokens == 1..MaxTokens

\* 60 * 60 * 1000 ms
Hour == 2

\* the pre-save hook: the password is stored hashed
hashed(password) == <<"bcrypt", password>>

\* lastLoginAt of an account that never logged in
Never == -1

NoUser ==
  [exists |-> FALSE, role |-> "user", password |-> hashed(""),
   passwordResetToken |-> NoToken, passwordResetExpires |-> 0,
   lastLoginAt |-> Never]

\* user.comparePassword(candidatePassword)
comparePassword(user, candidatePassword) ==
  user.password = hashed(candidatePassword)

\* new User({..., role, ...}) once saved
NewUser(role, password) ==
  [NoUser EXCEPT !.exists = TRUE, !.role = role,
                 !.password = hashed(password)]

\* a role taken from the request as it is
validRole_asSent(role) == role

\* register: role && ['user', 'admin'].includes(role) ? role : 'user'
validRole(role) ==
  IF role # NoRole /\ role \in {"user", "admin"} THEN role ELSE "user"

\* the difficulties of the cards of createSeedDeck
seedCards == <<"medium", "medium", "easy", "easy", "hard">>

\* the deck createSeedDeck saves for userId, its cardCount updated
seedDeck(userId) == [createdBy |-> userId, cardCount |-> Len(seedCards)]

\* the cards createSeedDeck inserts in the deck deckId
seedCardsOf(userId, deckId) ==
  [i \in 1..Len(seedCards) |->
     [deck |-> deckId, createdBy |-> userId, difficulty |-> seedCards[i]]]

\* user.generatePasswordResetToken() with token the random bytes drawn
generatePasswordResetToken(user, token) ==
  [user EXCEPT !.passwordResetToken = token,
               !.passwordResetExpires = now + Hour]

\* User.findOne({passwordResetToken: token,
\*               passwordResetExpires: {$gt: Date.now()}})
resetFound(token) ==
  {e \in Emails : /\ users[e].exists
                  /\ users[e].passwordResetToken = token
                  /\ users[e].passwordResetExpires > now}

\* the response of an auth route, with the fields of the request body that
\* tell which request it answers
Replied(op, status, input, message) ==
  [op |-> op, status |-> status, input |-> input, message |-> message]

NoReply == Replied("none", 0, <<>>, "")

\* an answer that tells a registered email from an unknown one
resetRequestAnswer_reveal(us, email) ==
  IF ~us[email].exists
    THEN [status |-> 404, message |-> "User not found"]
    ELSE [status |-> 200,
          message |-> "If the email exists, a password reset link has been sent"]

\* requestPasswordReset: the status and the body it answers on the accounts us
resetRequestAnswer(us, email) ==
  IF ~us[email].exists
    THEN [status |-> 200,
          message |-> "If the email exists, a password reset link has been sent"]
    ELSE [status |-> 200,
          message |-> "If the email exists, a password reset link has been sent"]

\* one account, registered as a user, with its seed deck, and the email of
\* no account
AuthInit ==
  /\ IdleSession
  /\ IdleShuffle
  /\ IdleSync
  /\ IdleAccuracy
  /\ users = [e \in Emails |->
                IF e = "a" THEN NewUser("user", "old") ELSE NoUser]
  /\ now = 0
  /\ drawn = 0
  /\ decks = <<seedDeck("a")>>
  /\ store = seedCardsOf("a", 1)
  /\ nextId = 0
  /\ requests = EmptyBag
  /\ response = NoReply

\* POST /api/auth/request-password-reset, from User.findOne to its response;
\* nothing is read between the query and user.save()
requestPasswordReset(email) ==
  /\ drawn < MaxTokens
  /\ IF ~users[email].exists
       THEN UNCHANGED <<users, drawn>>
       ELSE /\ drawn' = drawn + 1
            /\ users' = [users EXCEPT ![email] =
                           generatePasswordResetToken(@, drawn + 1)]
  /\ LET answer == resetRequestAnswer(users, email)
     IN response' = Replied("requestPasswordReset", answer.status,
                            [email |-> email], answer.message)
  /\ UNCHANGED <<now, store, decks, nextId, requests, clientVars>>

\* POST /api/auth/reset-password up to User.findOne
resetPassword(token, newPassword) ==
  /\ BagCardinality(requests) < MaxInFlight
  /\ IF resetFound(token) = {}
       THEN /\ response' = Replied("resetPassword", 400, [token |-> token],
                                   "Invalid or expired reset token")
            /\ UNCHANGED requests
       ELSE /\ requests' = requests (+) SetToBag({
                 [op |-> "resetPassword",
                  email |-> CHOOSE e \in resetFound(token) : TRUE,
                  token |-> token, newPassword |-> newPassword]})
            /\ response' = NoReply
  /\ UNCHANGED <<users, now, drawn, store, decks, nextId, clientVars>>

\* resetPassword: user.save() of the document loaded earlier, which writes
\* the password and unsets the token and its expiry, and the response
resetSave(r) ==
  /\ BagIn(r, requests)
  /\ r.op = "resetPassword"
  /\ users' = [users EXCEPT ![r.email] =
                 [@ EXCEPT !.password = hashed(r.newPassword),
                           !.passwordResetToken = NoToken,
                           !.passwordResetExpires = 0]]
  /\ requests' = requests (-) SetToBag({r})
  /\ response' = Replied("resetPassword", 200, [token |-> r.token],
                         "Password reset successfully")
  /\ UNCHANGED <<now, drawn, store, decks, nextId, clientVars>>

\* half an hour passes
tick ==
  /\ now < MaxTime
  /\ now' = now + 1
  /\ response' = NoReply
  /\ UNCHANGED <<users, drawn, store, decks, nextId, requests, clientVars>>

AuthNext ==
  \/ \E email \in Emails : requestPasswordReset(email)
  \/ \E token \in ResetTokens, newPassword \in NewPasswords :
       resetPassword(token, newPassword)
  \/ \E r \in BagToSet(requests) : resetSave(r)
  \/ tick

\* the requests for a reset and the resets, interleaved at their awaits
AuthSpec == AuthInit /\ [][AuthNext]_vars

\* ------------------------------------------------------------ the accounts
\* POST /api/auth/register, from User.findOne to its response
register(email, role) ==
  /\ IF users[email].exists
       THEN /\ response' = Replied("register", 400, <<>>,
                                   "Email already registered")
            /\ UNCHANGED <<users, decks, store>>
       ELSE /\ users' = [users EXCEPT ![email] = NewUser(validRole(role), "pw")]
            /\ decks' = Append(decks, seedDeck(email))
            /\ store' = store \o seedCardsOf(email, Len(decks) + 1)
            /\ response' = Replied("register", 201, [email |-> email,
                                   role |-> role], "User registered successfully")
  /\ UNCHANGED <<now, drawn, nextId, requests, clientVars>>

\* POST /api/auth/login, from User.findOne to its response
login(email, password) ==
  /\ IF users[email].exists /\ comparePassword(users[email], password)
       THEN /\ users' = [users EXCEPT ![email].lastLoginAt = now]
            /\ response' = Replied("login", 200, [email |-> email,
                                   role |-> users[email].role],
                                   "Login successful")
       ELSE /\ response' = Replied("login", 401, <<>>,
                                   "Invalid email or password")
            /\ UNCHANGED users
  /\ UNCHANGED <<now, drawn, store, decks, nextId, requests, clientVars>>

\* POST /api/auth/change-password of the account userId, from User.findById
\* to its response
changePassword(userId, currentPassword, newPassword) ==
  /\ IF ~users[userId].exists
       THEN /\ response' = Replied("changePassword", 404, <<>>,
                                   "User not found")
            /\ UNCHANGED users
       ELSE IF ~comparePassword(users[userId], currentPassword)
         THEN /\ response' = Replied("changePassword", 400, <<>>,
                                     "Current password is incorrect")
              /\ UNCHANGED users
         ELSE /\ users' = [users EXCEPT
                             ![userId].password = hashed(newPassword)]
              /\ response' = Replied("changePassword", 200,
                                     [email |-> userId],
                                     "Password changed successfully")
  /\ UNCHANGED <<now, drawn, store, decks, nextId, requests, clientVars>>

RegisterNext ==
  \/ \E email \in Emails, role \in RoleInputs : register(email, role)
  \/ \E email \in Emails, password \in Passwords : login(email, password)
  \/ \E userId \in Emails, currentPassword \in Passwords :
       \E newPassword \in NewPasswords :
         changePassword(userId, currentPassword, newPassword)

\* the requests that create and use the accounts, one at a time
RegisterSpec == AuthInit /\ [][RegisterNext]_vars

\* ------------------------------------------------------------------- claims
Count(s, c) == Cardinality({i \in 1..Len(s) : s[i] = c})

InFlightForCurrent ==
  \E h \in BagToSet(answering) :
    h.currentCardIndex = currentCardIndex

\* C1: in every state of a session the number of studied cards is the sum
\* of the correct and the incorrect answers.
C1_StudiedIsSum ==
  sessionStats.studiedCards =
    sessionStats.correctAnswers + sessionStats.incorrectAnswers

C1_Witness ==
  /\ Mounted
  /\ sessionStats.correctAnswers = 1
  /\ sessionStats.incorrectAnswers = 1
  /\ sessionStats.studiedCards = 2

\* C2: in every state of a session the number of studied cards is at most
\* the number of cards of the session, also when an answer button is
\* pressed again while the sync of an earlier answer is unresolved.
C2_StudiedAtMostTotal ==
  sessionStats.studiedCards <= sessionStats.totalCards

\* C3: no state shows the card at the cursor flipped, with the answer
\* buttons enabled, while an outcome recorded for it waits for its sync.
C3_AdvancesWithoutSync ==
  ~(CardView /\ ~crashed /\ isFlipped /\ InFlightForCurrent)

\* C4: when a pass is complete every card of the draw has received exactly
\* one outcome, in draw order, and the number of studied cards is the
\* number of cards of the session.
C4_OneLinearPass ==
  (Mounted /\ sessionComplete) =>
    (passLog = cards /\ sessionStats.studiedCards = sessionStats.totalCards)

\* C5: the position of a running session is a function of the outcomes
\* recorded in the pass alone, whatever happened to their syncs: the cursor
\* is the number of outcomes while cards remain, and the session is
\* complete from the last outcome on.
C5_ProgressFromOutcomes ==
  (Mounted /\ ~isLoading /\ cards # <<>>) =>
    IF Len(passLog) < Len(cards)
      THEN ~sessionComplete /\ currentCardIndex = Len(passLog)
      ELSE sessionComplete

\* C6: once the first fetch of a session has resolved with no card, the
\* session is ended: its view is not shown, it has no cards, no total and
\* no outcome.
C6_EmptySetEnds ==
  (initResult = "empty") =>
    (/\ ~showStudySession
     /\ cards = <<>>
     /\ sessionStats = InitialStats
     /\ ~isFlipped
     /\ passLog = <<>>
     /\ answering = EmptyBag)

C6_Witness ==
  /\ initResult = "empty"
  /\ lastEvent = "fetchCards"
  /\ selectedDeck
  /\ dmFetching > 0

\* C7: no state has a session view that finished loading and has no cards.
C7_NeverHalfConstructed ==
  ~(Mounted /\ ~isLoading /\ cards = <<>>)

\* C8: while a session that has its cards stays mounted, its cards and its
\* total do not change and it issues no further fetch.
C8_DrawIsFixed ==
  [][(Mounted /\ ~isLoading /\ cards # <<>> /\ showStudySession') =>
       (/\ cards' = cards
        /\ sessionStats'.totalCards = sessionStats.totalCards
        /\ fetchCount' = fetchCount)]_vars

\* C9: a restart puts the cursor at 0, unflips the card, leaves the summary
\* and zeroes the three answer counters; the total and the cards stay.
C9_Restart ==
  [][(lastEvent' = "handleRestartSession") =>
       (/\ currentCardIndex' = 0
        /\ ~isFlipped'
        /\ ~sessionComplete'
        /\ sessionStats'.studiedCards = 0
        /\ sessionStats'.correctAnswers = 0
        /\ sessionStats'.incorrectAnswers = 0
        /\ sessionStats'.totalCards = sessionStats.totalCards
        /\ cards' = cards)]_vars

C9_Witness ==
  /\ lastEvent = "handleRestartSession"
  /\ sessionStats.totalCards = 2
  /\ Len(cards) = 2

\* C10: shuffleArray returns an array of the length of its argument with
\* the same number of occurrences of every card, and leaves its argument
\* as it was.
C10_Permutation ==
  [][(shufflePc = "called" /\ shufflePc' = "returned") =>
       (/\ Len(shuffled') = Len(array)
        /\ \A c \in CardIds : Count(shuffled', c) = Count(array, c)
        /\ array' = array)]_vars

C10_Witness ==
  /\ shufflePc = "returned"
  /\ Len(array) = MaxLen
  /\ shuffled # array

\* C11: a session that has its cards holds exactly the stored cards of the
\* selected deck whose difficulty is the filter of the session (every card
\* of the deck without a filter), each once, and its total is their number.
C11_FilteredDraw ==
  (Mounted /\ ~isLoading /\ cards # <<>>) =>
    LET wanted == {i \in 1..Len(store) :
                     /\ store[i].deck = SelectedDeckId
                     /\ \/ selectedDifficulty = NoDifficulty
                        \/ store[i].difficulty = selectedDifficulty}
    IN /\ {cards[j] : j \in 1..Len(cards)} = {store[i] : i \in wanted}
       /\ Len(cards) = Cardinality(wanted)
       /\ sessionStats.totalCards = Cardinality(wanted)

C11_Witness ==
  /\ Mounted /\ ~isLoading
  /\ selectedDifficulty = "hard"
  /\ Len(store) = MaxCards + 1
  /\ Len(cards) = MaxCards - 1
  /\ sessionStats.totalCards = MaxCards - 1

\* the card the view shows
CardShown == cards[currentCardIndex + 1]

\* C15: an outcome is recorded only on a flipped card, and a card is shown
\* flipped only by its reveal and from then on, so that every recorded
\* outcome is preceded by a reveal of the same card since the last advance
\* or restart.
C15_AnswerAfterReveal ==
  [][/\ (lastEvent' = "handleAnswer") => isFlipped
     /\ (CardView' /\ ~crashed' /\ isFlipped') =>
          /\ CardView
          /\ CardShown' = CardShown
          /\ isFlipped \/ lastEvent' = "handleCardClick"]_vars

\* the first half of C15 alone: an outcome is recorded only on a flipped card
C15_OnlyWhileFlipped ==
  [][(lastEvent' = "handleAnswer") => isFlipped]_vars

\* C16: a click on a card shown front-only flips it, a click on a flipped
\* card changes nothing; either way the cursor, the counters, the cards and
\* the suspended syncs stay as they were.
C16_RevealIdempotent ==
  [][(lastEvent' = "handleCardClick") =>
       (/\ isFlipped'
        /\ isFlipped => UNCHANGED sessVars
        /\ UNCHANGED <<cards, currentCardIndex, sessionStats, isLoading,
                       sessionComplete, flightVars, passLog, store, dmVars>>)]_vars

C16_Witness ==
  /\ lastEvent = "handleCardClick"
  /\ isFlipped
  /\ BagCardinality(answering) = 1
  /\ sessionStats.studiedCards = 1
  /\ currentCardIndex = 1

\* C12: the sync request of an answer is addressed to the card at the
\* cursor and carries that card's studyCount plus one and its correctCount,
\* plus one when the answer is correct.
C12_PostIncrement ==
  [][(answerPc = "called" /\ answerPc' = "sent") =>
       LET card == cards[currentCardIndex + 1]
       IN /\ request'.cardId = card.id
          /\ request'.studyCount = card.studyCount + 1
          /\ request'.correctCount =
               card.correctCount
                 + (IF lastEvent' = "answerCorrect" THEN 1 ELSE 0)]_vars

C12_Witness ==
  /\ answerPc = "sent"
  /\ lastEvent = "answerCorrect"
  /\ currentCardIndex = 1
  /\ cards[2].studyCount = 4 /\ cards[2].correctCount = 2
  /\ request = [cardId |-> 2, studyCount |-> 5, correctCount |-> 3,
                lastStudied |-> Now]

\* C13: when an update request carrying the three statistics is answered
\* 200, the stored card has the studyCount, the correctCount and the
\* lastStudied of the request.
C13_StatsOverwritten ==
  [][(/\ response'.op = "updateCard"
      /\ response'.status = 200
      /\ response'.body.studyCount # Undefined) =>
       \E i \in 1..Len(store') :
         /\ store'[i].id = response'.cardId
         /\ store'[i].studyCount = response'.body.studyCount
         /\ store'[i].correctCount = response'.body.correctCount
         /\ store'[i].lastStudied = response'.body.lastStudied]_vars

\* what holds instead of C13: an update request carrying the statistics
\* leaves the store as it is, whatever it is answered
C13_StatsIgnored ==
  [][(/\ response'.op = "updateCard"
      /\ response'.body.studyCount # Undefined) => store' = store]_vars

\* C14: every stored card has 0 <= correctCount <= studyCount.
C14_CorrectAtMostStudied ==
  \A i \in 1..Len(store) :
    0 <= store[i].correctCount /\ store[i].correctCount <= store[i].studyCount

C14_Witness ==
  /\ response.op = "updateCard"
  /\ response.status = 200
  /\ response.body.correctCount = 1
  /\ Len(store) = MaxCards
  /\ nextId = MaxCards + 1
  /\ \E r \in BagToSet(requests) : r.op = "updateCard"

\* the percentage of k out of n > 0 rounded half up
RoundHalfUp(k, n) == (200 * k + n) \div (2 * n)

\* C17: the accuracy of the summary and the accuracy of a card are 0 when
\* nothing was studied, and otherwise 100 * correct / studied rounded half
\* up, a value within 0..100.
C17_Accuracy ==
  (accuracyPc = "returned") =>
    LET exact == IF counts.studied = 0 THEN 0
                 ELSE RoundHalfUp(counts.correct, counts.studied)
    IN /\ accuracy = exact
       /\ cardAccuracy = exact
       /\ accuracy \in 0..100

\* the part of C17 that holds: 0 when nothing was studied, within 0..100
\* and at most one below the value rounded half up
C17_ZeroAndRange ==
  (accuracyPc = "returned") =>
    /\ accuracy = cardAccuracy
    /\ accuracy \in 0..100
    /\ counts.studied = 0 => accuracy = 0
    /\ counts.studied > 0 =>
         RoundHalfUp(counts.correct, counts.studied) - accuracy \in {0, 1}

\* C18: when no request is running, the cardCount of every deck is the
\* number of stored cards of the deck.
C18_CardCount ==
  NoRequestRunning =>
    \A d \in DeckIds :
      decks[d].exists => decks[d].cardCount = countDocuments(store, d)

\* C19: in the state a deleteDeck is answered 200 the deck is gone and no
\* stored card is of the deck, and when no request is running every stored
\* card is of a deck that exists.
C19_Cascade ==
  /\ (response.op = "deleteDeck" /\ response.status = 200) =>
       /\ ~decks[SelectedDeckId].exists
       /\ countDocuments(store, SelectedDeckId) = 0
  /\ NoRequestRunning =>
       \A i \in 1..Len(store) : decks[store[i].deck].exists

\* C20: only requests whose token passed authMiddleware are in a handler,
\* and a request with another token is answered 401 with the cards, the
\* decks and the running requests as they were.
C20_AuthGate ==
  [][/\ \A r \in BagToSet(requests') : r.token = "valid"
     /\ (response' # NoResponse /\ response'.token # "valid") =>
          /\ response'.status = 401
          /\ UNCHANGED <<store, decks, nextId, requests>>]_vars

C20_Witness ==
  /\ response.status = 401
  /\ response.token = "nouser"
  /\ Len(store) = MaxCards
  /\ \E r \in BagToSet(requests) : r.op = "updateCard" /\ r.pc = "update"

\* the stored card with this id exists
cardStored(cardId) == \E i \in 1..Len(store) : store[i].id = cardId

\* C21: a user acts on own data only: createCard, getCardsByDeck and
\* deleteDeck on a deck of another user, updateCard and deleteCard on a card
\* of another user, are answered 404 and change neither the cards nor the
\* decks, and getUserDecks returns decks of the requester only; the admin
\* succeeds on every deck and card there is and gets every deck.
C21_OwnDataOnly ==
  [][LET r == response'
     IN /\ (/\ r.op \in {"createCard", "getCardsByDeck", "deleteDeck"}
            /\ decks[r.id].exists) =>
              IF isAdmin(r.userId) THEN r.status \in {200, 201}
              ELSE (deckCreator(r.id) # r.userId) =>
                     (r.status = 404 /\ r.data = <<>> /\ store' = store
                      /\ decks' = decks)
        /\ (r.op \in {"updateCard", "deleteCard"} /\ cardStored(r.id)) =>
              IF isAdmin(r.userId) THEN r.status = 200
              ELSE (cardById(store, r.id).createdBy # r.userId) =>
                     (r.status = 404 /\ store' = store /\ decks' = decks)
        /\ (r.op = "getUserDecks") =>
              /\ r.status = 200
              /\ IF isAdmin(r.userId)
                   THEN r.data = {d \in DeckIds : decks[d].exists}
                   ELSE \A d \in r.data : deckCreator(d) = r.userId]_vars

C21_Witness ==
  /\ response.op = "deleteDeck"
  /\ response.status = 404
  /\ ~isAdmin(response.userId)
  /\ decks[response.id].exists
  /\ deckCreator(response.id) # response.userId
  /\ countDocuments(store, response.id) > 0

\* C27: the user who created a deck can update and delete every card stored
\* in it, the cards the admin added included: updateCard and deleteCard of
\* the deck's creator on a card of the deck succeed.
C27_OwnerManagesDeck ==
  [][LET r == response'
     IN (/\ r.op \in {"updateCard", "deleteCard"}
         /\ cardStored(r.id)
         /\ ~isAdmin(r.userId)
         /\ deckCreator(cardById(store, r.id).deck) = r.userId) =>
          r.status = 200]_vars

\* C22: every recorded outcome issues exactly one sync request and no other
\* step issues one; a sync that resolved or failed leaves the pending ones
\* and is not sent again.
C22_OneSyncPerOutcome ==
  [][/\ IF lastEvent' = "handleAnswer"
          THEN /\ Answering' = Answering + 1
               /\ Len(passLog') = Len(passLog) + 1
               /\ sessionStats'.studiedCards = sessionStats.studiedCards + 1
          ELSE /\ Answering' <= Answering
               /\ Len(passLog') <= Len(passLog)
               /\ sessionStats'.studiedCards <= sessionStats.studiedCards
     /\ (lastEvent' = "handleAnswerResume") => Answering' = Answering - 1]_vars

C22_Witness ==
  /\ lastEvent = "handleAnswerResume"
  /\ Mounted
  /\ Len(passLog) = 1
  /\ Answering = 0

\* C23: End leaves the session view, clears the selected difficulty and
\* issues a fetch of the deck's cards; pressed on the summary of a complete
\* pass, it issues that fetch when no sync of the session is pending.
C23_EndRefetches ==
  [][(lastEvent' = "onEndSession") =>
       (/\ ~showStudySession'
        /\ selectedDifficulty' = NoDifficulty
        /\ dmFetching' = dmFetching + 1
        /\ sessionComplete => answering = EmptyBag)]_vars

\* the part of C23 on the caller alone: the view, the difficulty, the fetch
C23_EndLeaves ==
  [][(lastEvent' = "onEndSession") =>
       (/\ ~showStudySession'
        /\ selectedDifficulty' = NoDifficulty
        /\ dmFetching' = dmFetching + 1)]_vars

\* C24: a sync that resolves or fails after its session view was ended
\* throws nothing and changes nothing: the deck manager and the cursor,
\* flipped flag and counters of a session started meanwhile stay as they are.
C24_LateSyncHarmless ==
  [][(orphanAnswering' < orphanAnswering) =>
       (/\ ~crashed'
        /\ UNCHANGED <<dmVars, sessVars, sessFetching, orphanFetching,
                       answering, store>>)]_vars

C24_Witness ==
  /\ lastEvent = "handleAnswerResume"
  /\ CardView /\ ~crashed
  /\ isFlipped
  /\ answering = EmptyBag

\* C25: in every state of a session that has its cards the cursor is at
\* least 0 and less than the number of cards, so the current card is
\* defined, also when several answer handlers of one card resume.
C25_CursorInRange ==
  (Mounted /\ ~isLoading /\ cards # <<>>) =>
    (/\ 0 <= currentCardIndex
     /\ currentCardIndex < sessionStats.totalCards)

\* C26: within one session the studyCount sent for a card grows with every
\* answer: an answer of a card whose earlier answer has been synced sends a
\* studyCount greater than the one sent before for that card.
C26_CountGrows ==
  [][(/\ lastEvent' = "handleAnswer"
      /\ answering = EmptyBag
      /\ request # NoRequest
      /\ request'.cardId = request.cardId) =>
       request'.studyCount > request.studyCount]_vars

\* C28: every registered account has the role user or admin, and an account
\* that register creates has the role admin only when the request carried
\* the role admin: an absent role or any other value gives the role user.
C28_RoleFromRequest ==
  [][/\ \A e \in Emails :
          /\ users[e].exists => users[e].role \in {"user", "admin"}
          /\ users'[e].exists => users'[e].role \in {"user", "admin"}
     /\ (response'.op = "register" /\ response'.status = 201) =>
          /\ ~users[response'.input.email].exists
          /\ users'[response'.input.email].exists
          /\ users'[response'.input.email].role =
               IF response'.input.role = "admin" THEN "admin" ELSE "user"]_vars

C28_Witness ==
  /\ response.op = "register"
  /\ response.status = 201
  /\ response.input.role = "root"
  /\ users[response.input.email].exists
  /\ users[response.input.email].role = "user"

\* the token was drawn and no account holds it any more: a reset used it or
\* a newer token took its place
Spent(token) ==
  /\ token <= drawn
  /\ \A e \in Emails : users[e].passwordResetToken # token

\* the token is held by an account and its hour is over
Expired(token) ==
  \E e \in Emails : /\ users[e].exists
                    /\ users[e].passwordResetToken = token
                    /\ users[e].passwordResetExpires <= now

\* C29: a reset token is accepted at most once: after a reset with the token
\* succeeded, or after a newer token was issued for the same user, a
\* resetPassword with the old token answers 400 and leaves the stored
\* passwords as they are.
C29_TokenOnce ==
  [][(response'.op = "resetPassword" /\ Spent(response'.input.token)) =>
       /\ response'.status = 400
       /\ \A e \in Emails : users'[e].password = users[e].password]_vars

\* a resetPassword whose token is spent or expired when User.findOne runs is
\* answered 400 and writes nothing
C29_RejectedOnArrival ==
  [][(/\ response'.op = "resetPassword"
      /\ requests' = requests
      /\ Spent(response'.input.token) \/ Expired(response'.input.token)) =>
       /\ response'.status = 400
       /\ users' = users]_vars

\* C30: requestPasswordReset does not tell whether an email is registered:
\* the status and the body it answers are those it answers on the accounts
\* that differ only in whether the requested email belongs to a user.
C30_NoEnumeration ==
  [][response'.op = "requestPasswordReset" =>
       LET email == response'.input.email
           others == [users EXCEPT ![email].exists = ~@]
           answer == resetRequestAnswer(others, email)
       IN /\ response'.status = answer.status
          /\ response'.message = answer.message]_vars

C30_Witness ==
  /\ response.op = "requestPasswordReset"
  /\ response.status = 200
  /\ users[response.input.email].exists
  /\ users[response.input.email].passwordResetToken = drawn
  /\ \E e \in Emails : ~users[e].exists

====
